---- MODULE Spec2Model ----
(***************************************************************************)
(* A model of the Sora video generator's generation workflow:              *)
(*   - api.SoraClient.CreateVideo        (internal/api/sora.go)            *)
(*   - cli.RunNonInteractive             (internal/cli/cli.go)   "batch"   *)
(*   - tui.Model Init/Update and its commands (internal/tui/model.go) "tui"*)
(*   - the same model with keys pressed at any time             "session" *)
(* The remote service is the environment: every response is drawn from a   *)
(* small set by the action that receives it.                               *)
(***************************************************************************)
EXTENDS Integers, Sequences, FiniteSets, Bags, TLC

(***************************************************************************)
(* Bounds of the model (not program constants).                            *)
(***************************************************************************)
\* The elapsed-seconds counters are followed up to this value: the batch
\* wall clock saturates there and the one-second tick stops being delivered.
MaxElapsed == 121
\* The service settles a job (reports completed or failed, or fails a status
\* query) within the first MaxSettleQuery status queries or not at all.
MaxSettleQuery == 3
\* Error messages of a failed job have at most this many letters.
MaxMessageLen == 2
\* A session starts at most this many createVideo commands.
MaxSessionJobs == 2
\* In a session the service settles a job at the latest on this status query.
MaxSessionQueries == 3
\* The API client logs at most this many entries.
MaxLogged == 53

(***************************************************************************)
(* Program constants.                                                      *)
(***************************************************************************)
\* maxRetries with one attempt more
maxRetries_OneMore == 3 + 1

maxRetries == 3

\* maxAttempts with one more iteration of the poll loop
maxAttempts_OneMore == 200 + 1

maxAttempts == 200
tuiPollCeiling == 200

\* maxDownloadRetries with one attempt more
maxDownloadRetries_OneMore == 12 + 1

\* maxDownloadRetries := 12 (maxRetries := 12 in downloadVideo)
maxDownloadRetries == 12

\* a retry wait one second longer
downloadRetrySeconds_Eleven == 10 + 1

\* time.Sleep(10 * time.Second) before every download attempt but the first
downloadRetrySeconds == 10
fastPollSeconds == 10
slowPollSeconds == 30
fastPollWindow == 120
fullProgress == 100

\* the cap of the debug log with one entry more
maxDebugLogs_OneMore == 50 + 1

\* len(m.debugLogs) > 50
maxDebugLogs == 50

VARIABLES
    mode,           \* "api": CreateVideo alone; "batch": RunNonInteractive; "tui", "session": the Bubble Tea model
    pc,             \* where the front end is
    outcome,        \* "running", "success", "failure", "aborted"
    err,            \* batch: the error RunNonInteractive returns; tui: Model.err
    duration,       \* the duration setting as resolved from the options and the configuration
    req,            \* the CreateVideoRequest built by the front end
    attempt,        \* CreateVideo: loop index
    lastErr,        \* CreateVideo: lastErr
    createRet,      \* CreateVideo: what it returned, [kind |-> "pending"] while it runs
    createCalls,    \* number of creation requests handed to the HTTP client
    createSleeps,   \* CreateVideo: the waits it slept, in seconds, in order
    createLog,      \* CreateVideo on its own: the responses its attempts met, in order
    videoID,        \* the job being polled and downloaded
    pollAttempts,   \* batch: pollAttempts; tui: Model.pollAttempts
    elapsed,        \* batch: whole seconds since startTime, as the poll loop's sleeps and calls advance them
    progress,       \* batch: Progress of the last status response; tui: Model.progress
    statusCalls,    \* number of GetVideo requests issued
    lastStatus,     \* what the last GetVideo call returned: "none", "error" or the reported status
    lastMessage,    \* the error message carried by the last GetVideo response
    lastProgress,   \* the progress value carried by the last GetVideo response
    lastWait,       \* seconds slept before the last GetVideo request
    seen,           \* how far the responses so far spell queued, in_progress, completed (-1: they do not)
    downloadAttempt, \* download loop index
    downloadErr,    \* batch: downloadErr
    downloadCalls,  \* number of DownloadVideoContent requests issued
    downloadSleeps, \* seconds the download loop has slept between its attempts
    downloadTarget, \* video ID of the last download request
    deleteCalls,    \* number of DeleteVideo requests issued for the job
    deleteErr,      \* the error the last DeleteVideo call returned
    warned,         \* the delete failure warning was written to stderr
    disk,           \* the destination of the download: parent directory, file, number of os.Create calls
    state,          \* tui: Model.state
    elapsedSeconds, \* tui: Model.elapsedSeconds
    videoStatus,    \* tui: Model.videoStatus
    pollInterval,   \* tui: the interval the outstanding pollVideo command sleeps
    ticksPending,   \* tui: number of tea.Tick timers armed
    tickDebt,       \* tui: tickMsg deliveries still due while the outstanding pollVideo sleeps
    outputPath,     \* tui: Model.outputPath
    cmds,           \* session: the bag of commands handed to the runtime that have not returned
    debug,          \* Model.debug
    debugLogs,      \* debugLogs of the Model the debug callback appends to; entries are numbered
    held,           \* whether the runtime still holds the *Model of NewModel or a Model value
    shown,          \* debugLogs of the Model value the runtime holds
    logged,         \* number of entries the API client has handed to the debug callback
    prompt,         \* tui: Model.prompt
    referenceImg,   \* tui: Model.referenceImg
    skipReference,  \* tui: Model.skipReference
    opts,           \* settings: the command line options
    cfg,            \* settings: the configuration config.Load returns
    cliSettings,    \* settings: model, duration, size, outputDir of RunNonInteractive, or its error
    tuiSettings,    \* settings: model, duration, size, outputDir of the Model NewModel returns
    modelSelection,     \* menus: Model.modelSelection
    durationSelection,  \* menus: Model.durationSelection
    sizeSelection       \* menus: Model.sizeSelection

createVars == <<attempt, lastErr, createRet, createCalls, createSleeps, createLog>>
pollVars == <<videoID, pollAttempts, elapsed, progress, statusCalls, lastStatus, lastMessage,
              lastProgress, lastWait, seen>>
downloadVars == <<downloadAttempt, downloadErr, downloadCalls, downloadSleeps, downloadTarget,
                  deleteCalls, deleteErr, warned, disk>>
logVars == <<debug, debugLogs, held, shown, logged>>
refVars == <<prompt, referenceImg, skipReference>>
menuVars == <<modelSelection, durationSelection, sizeSelection>>
settingsVars == <<opts, cfg, cliSettings, tuiSettings, menuVars>>
tuiVars == <<state, elapsedSeconds, videoStatus, pollInterval, ticksPending, tickDebt,
             outputPath, cmds, logVars, refVars, settingsVars>>
vars == <<mode, pc, outcome, err, duration, req, createVars, pollVars, downloadVars, tuiVars>>

(***************************************************************************)
(* Errors. Every error value is a record; NoErr is Go's nil error.         *)
(***************************************************************************)
NoErr == [kind |-> "nil"]

\* &httpError{statusCode: code}
HttpError(code) == [kind |-> "httpError", statusCode |-> code]

\* fmt.Errorf("<what>: %w", ...) raised by the client around a local or transport failure
PlainError(what) == [kind |-> "error", what |-> what]

\* fmt.Errorf("<text>: %w", cause)
WrapError(text, cause) == [kind |-> "wrapped", text |-> text, cause |-> cause]

\* fmt.Errorf("failed after %d attempts: %w", n, cause)
FailedAfter(n, cause) == [kind |-> "failedAfter", attempts |-> n, cause |-> cause]

\* fmt.Errorf("video content not available after %d attempts (2 minutes)", n), with
\* ": %w" and the last download error in RunNonInteractive and no cause in the model
NotAvailableAfter(n, cause) == [kind |-> "notAvailableAfter", attempts |-> n, cause |-> cause]

(***************************************************************************)
(* The creation endpoint as the client sees it.                            *)
(*   kind "local":     the attempt fails before a request is sent          *)
(*                     (reference file cannot be opened or decoded)        *)
(*   kind "transport": httpClient.Do returns an error                      *)
(*   kind "http":      a response with a status code; its body can be read *)
(*                     and parsed ("ok"), cannot be read ("unreadable") or *)
(*                     is not the expected JSON ("garbled")                *)
(***************************************************************************)
StatusCodes == {200, 201, 400, 499, 500, 503}
Bodies == {"ok", "unreadable", "garbled"}
JobID == "video_1"

CreateResponses(r) ==
    (IF r.InputReference # "" THEN {[kind |-> "local"]} ELSE {})
    \cup {[kind |-> "transport"]}
    \cup {[kind |-> "http", code |-> c, body |-> b] : c \in StatusCodes, b \in Bodies}

\* createVideoAttempt: sent says whether the request reached httpClient.Do
createVideoAttempt(r, resp) ==
    IF resp.kind = "local"
    THEN [sent |-> FALSE, err |-> PlainError("failed to open reference file"), id |-> ""]
    ELSE IF resp.kind = "transport"
    THEN [sent |-> TRUE, err |-> PlainError("failed to execute request"), id |-> ""]
    ELSE IF resp.body = "unreadable"
    THEN [sent |-> TRUE, err |-> PlainError("failed to read response"), id |-> ""]
    ELSE IF resp.code # 200 /\ resp.code # 201
    THEN [sent |-> TRUE, err |-> HttpError(resp.code), id |-> ""]
    ELSE IF resp.body = "garbled"
    THEN [sent |-> TRUE, err |-> PlainError("failed to parse response"), id |-> ""]
    ELSE [sent |-> TRUE, err |-> NoErr, id |-> JobID]

\* isClientError with 4xx responses treated like any other failure
isClientError_RetryAll(e) == FALSE

isClientError(e) ==
    IF e.kind = "httpError"
    THEN e.statusCode >= 400 /\ e.statusCode < 500
    ELSE FALSE

\* waitTime with the shift applied to attempt+1
waitTime_ShiftedByOne(n) == 2 ^ (n + 1)

\* time.Duration(1<<uint(attempt)) * time.Second, in seconds
waitTime(n) == 2 ^ n

Pending == [kind |-> "pending"]

\* The state of a CreateVideo call that has just been entered.
CreateEntered ==
    /\ attempt = 0
    /\ lastErr = NoErr
    /\ createRet = Pending
    /\ createSleeps = <<>>
    /\ createLog = <<>>

\* One iteration of CreateVideo's loop, with the return that follows it when
\* the iteration succeeds, breaks or is the last one.
CreateStep(resp) ==
    /\ pc = "create"
    /\ createRet = Pending
    /\ attempt < maxRetries
    /\ LET r == createVideoAttempt(req, resp)
           last == (attempt + 1 >= maxRetries) \/ isClientError(r.err)
       IN  /\ createSleeps' = IF attempt > 0
                              THEN Append(createSleeps, waitTime(attempt))
                              ELSE createSleeps
           /\ createLog' = IF mode = "api" THEN Append(createLog, resp) ELSE createLog
           /\ createCalls' = IF r.sent THEN createCalls + 1 ELSE createCalls
           /\ IF r.err = NoErr
              THEN /\ createRet' = [kind |-> "ok", id |-> r.id]
                   /\ UNCHANGED <<attempt, lastErr>>
              ELSE /\ lastErr' = r.err
                   /\ attempt' = IF isClientError(r.err) THEN attempt ELSE attempt + 1
                   /\ createRet' = IF last
                                   THEN [kind |-> "err", err |-> FailedAfter(maxRetries, r.err)]
                                   ELSE Pending
    /\ UNCHANGED <<mode, pc, outcome, err, duration, req, pollVars, downloadVars, tuiVars>>

CreateVideo == \E resp \in CreateResponses(req) : CreateStep(resp)

(***************************************************************************)
(* CreateVideo on its own: any request, any sequence of responses.         *)
(***************************************************************************)
Requests ==
    [Seconds : {"4"}, Size : {"1280x720"}, InputReference : {"", "ref.png"}]

\* Nothing has been polled, downloaded or deleted.
NoJobYet ==
    /\ videoID = ""
    /\ pollAttempts = 0
    /\ elapsed = 0
    /\ progress = 0
    /\ statusCalls = 0
    /\ lastStatus = "none"
    /\ lastMessage = <<>>
    /\ lastProgress = 0
    /\ lastWait = 0
    /\ seen = 0
    /\ downloadAttempt = 0
    /\ downloadErr = NoErr
    /\ downloadCalls = 0
    /\ downloadSleeps = 0
    /\ downloadTarget = ""
    /\ deleteCalls = 0
    /\ deleteErr = NoErr
    /\ warned = FALSE
    /\ disk = [dir |-> FALSE, file |-> "absent", creates |-> 0]

\* Debug mode is off and nothing has been logged.
NoLogs ==
    /\ debug = FALSE
    /\ debugLogs = <<>>
    /\ held = "pointer"
    /\ shown = <<>>
    /\ logged = 0

\* No front end has read its options.
Unset == [kind |-> "unset"]

NoSettings ==
    /\ opts = Unset
    /\ cfg = Unset
    /\ cliSettings = Unset
    /\ tuiSettings = Unset
    /\ modelSelection = 0
    /\ durationSelection = 0
    /\ sizeSelection = 0

\* The interactive model does not exist.
NoTui ==
    /\ state = "none"
    /\ elapsedSeconds = 0
    /\ videoStatus = ""
    /\ pollInterval = 0
    /\ ticksPending = 0
    /\ tickDebt = 0
    /\ outputPath = ""
    /\ cmds = EmptyBag
    /\ NoLogs
    /\ prompt = ""
    /\ referenceImg = ""
    /\ skipReference = FALSE
    /\ NoSettings

InitCreate ==
    /\ mode = "api"
    /\ pc = "create"
    /\ outcome = "running"
    /\ err = NoErr
    /\ req \in Requests
    /\ duration = req.Seconds
    /\ createCalls = 0
    /\ CreateEntered
    /\ NoJobYet
    /\ NoTui

NextCreate == CreateVideo

SpecCreate == InitCreate /\ [][NextCreate]_vars

(***************************************************************************)
(* The status endpoint as the client sees it.                              *)
(***************************************************************************)
\* Error messages are strings over a two-letter alphabet: an ordinary letter
\* and the percent sign.
MessageChars == {"a", "%"}
Messages ==
    UNION {[1..n -> MessageChars] : n \in 0..MaxMessageLen}

\* Non-terminal status reports: a known status, one at full progress, and a
\* status value the client does not know.
PendingResponses ==
    { [kind |-> "status", status |-> "queued", progress |-> 0, message |-> <<>>],
      [kind |-> "status", status |-> "in_progress", progress |-> 100, message |-> <<>>],
      [kind |-> "status", status |-> "processing", progress |-> 40, message |-> <<>>] }

SettledResponses ==
    { [kind |-> "status", status |-> "completed", progress |-> 100, message |-> <<>>],
      [kind |-> "status", status |-> "completed", progress |-> 0, message |-> <<>>],
      [kind |-> "error", status |-> "", progress |-> 0, message |-> <<>>] }
    \cup { [kind |-> "status", status |-> "failed", progress |-> 0, message |-> m] :
             m \in Messages }

\* What the n-th status query of a job can return.
StatusResponses(n) ==
    IF n <= MaxSettleQuery THEN PendingResponses \cup SettledResponses ELSE PendingResponses

\* GetVideo: a transport failure or a non-200 response is an error without a response
GetVideo(resp) ==
    IF resp.kind = "error"
    THEN [err |-> PlainError("failed to get video"), Status |-> "", Progress |-> 0, Message |-> <<>>]
    ELSE [err |-> NoErr, Status |-> resp.status, Progress |-> resp.progress,
          Message |-> resp.message]

\* statusQueryFailed with the error of GetVideo dropped
statusQueryFailed_Ignored(r) == FALSE

\* err != nil after GetVideo
statusQueryFailed(r) == r.err # NoErr

\* isCompleted with a job in progress taken as completed as well
isCompleted_OrInProgress(status) == status \in {"completed", "in_progress"}

\* isCompleted with no status taken as completed
isCompleted_Never(status) == FALSE

\* resp.Status == "completed"
isCompleted(status) == status = "completed"

\* isFailed with every status the client does not know taken as failed
isFailed_Unknown(status) == status \notin {"queued", "in_progress", "completed"}

\* resp.Status == "failed"
isFailed(status) == status = "failed"

\* What lastStatus records of a GetVideo result
Reported(r) == IF r.err # NoErr THEN "error" ELSE r.Status

\* fmt.Sprintf(format) with no operands, on a string given letter by letter:
\* "%%" prints a percent sign, a percent sign before any other letter prints
\* "%!<letter>(MISSING)", a percent sign at the end prints "%!(NOVERB)".
RECURSIVE Sprintf(_)
Sprintf(format) ==
    IF format = <<>> THEN <<>>
    ELSE IF Head(format) # "%" THEN <<Head(format)>> \o Sprintf(Tail(format))
    ELSE IF Len(format) = 1 THEN <<"%!(NOVERB)">>
    ELSE IF format[2] = "%" THEN <<"%">> \o Sprintf(Tail(Tail(format)))
    ELSE <<"%!", format[2], "(MISSING)">> \o Sprintf(Tail(Tail(format)))

\* errMsg as both front ends build it for a failed job
FailedMessage(message) ==
    IF message # <<>>
    THEN <<"Video generation failed", ": ">> \o message
    ELSE <<"Video generation failed">>

\* fmt.Errorf(errMsg): errMsg is the format string
GenerationFailed(message) == [kind |-> "text", text |-> Sprintf(FailedMessage(message))]

\* fmt.Errorf("timeout waiting for video generation")
TimeoutError == [kind |-> "text", text |-> <<"timeout waiting for video generation">>]

\* The ghost that follows the responses queued, in_progress, completed.
SeenAfter(s, status) ==
    IF s = 0 /\ status = "queued" THEN 1
    ELSE IF s = 1 /\ status = "in_progress" THEN 2
    ELSE IF s = 2 /\ status = "completed" THEN 3
    ELSE -1

Min(a, b) == IF a < b THEN a ELSE b

(***************************************************************************)
(* The content and delete endpoints as the client sees them.               *)
(***************************************************************************)
\* Response bodies of the content endpoint: one that mentions neither "404"
\* nor "not ready", one that says "not ready", and one that carries the
\* digits 404 in an unrelated place (a request id).
DownloadResponses ==
    { [kind |-> "ok"], [kind |-> "transport"], [kind |-> "local"],
      [kind |-> "http", code |-> 404, body |-> "plain"],
      [kind |-> "http", code |-> 500, body |-> "plain"],
      [kind |-> "http", code |-> 500, body |-> "not ready"],
      [kind |-> "http", code |-> 500, body |-> "request req_4047"],
      [kind |-> "truncated"] }

\* DownloadVideoContent: the error it returns.  "local": the output directory
\* cannot be created; "truncated": a 200 response whose body breaks off.
DownloadVideoContent(resp) ==
    IF resp.kind = "ok" THEN NoErr
    ELSE IF resp.kind = "transport" THEN PlainError("failed to execute request")
    ELSE IF resp.kind = "local" THEN PlainError("failed to create file")
    ELSE IF resp.kind = "truncated" THEN PlainError("failed to write video data")
    ELSE [kind |-> "download", statusCode |-> resp.code, body |-> resp.body]

\* reachesFile with the file created before the status code is looked at
reachesFile_Always(resp) == TRUE

\* resp.StatusCode == http.StatusOK and MkdirAll succeeded: os.Create is called
reachesFile(resp) == resp.kind \in {"ok", "truncated"}

\* DownloadVideoContent: what it leaves on the disk.  os.MkdirAll comes
\* before os.Create, os.Create truncates the file, and io.Copy fills it.
DiskAfter(resp, d) ==
    IF reachesFile(resp)
    THEN [dir |-> TRUE,
          file |-> IF resp.kind = "ok" THEN "written" ELSE "partial",
          creates |-> d.creates + 1]
    ELSE d

\* strings.Contains(err.Error(), what) for the texts the download loops look
\* for, on "failed to download video content (status <code>): <body>"
ErrorContains(e, what) ==
    IF e.kind # "download" THEN FALSE
    ELSE IF what = "404" THEN e.statusCode = 404 \/ e.body = "request req_4047"
    ELSE IF what = "not ready" THEN e.body = "not ready"
    ELSE FALSE

\* strings.Contains(err.Error(), "404") || strings.Contains(err.Error(), "not ready")
isNotReady(e) == ErrorContains(e, "404") \/ ErrorContains(e, "not ready")

\* downloadErr == nil: the attempt wrote the file
downloaded_Always(e) == TRUE

downloaded(e) == e = NoErr

DeleteResponses ==
    { [kind |-> "transport"], [kind |-> "http", code |-> 200],
      [kind |-> "http", code |-> 404], [kind |-> "http", code |-> 500] }

\* DeleteVideo: the error it returns
DeleteVideo(resp) ==
    IF resp.kind = "transport" THEN PlainError("failed to execute request")
    ELSE IF resp.code # 200 THEN HttpError(resp.code)
    ELSE NoErr

\* err != nil after DeleteVideo: the warning is printed
deleteFailed_Never(e) == FALSE

deleteFailed(e) == e # NoErr

(***************************************************************************)
(* Settings.                                                               *)
(***************************************************************************)
OptDurations == {"", "5"}
CfgDurations == {"", "8"}

\* duration: the option, else the configured value, else "4"
resolveDuration(opt, saved) == IF opt # "" THEN opt ELSE IF saved # "" THEN saved ELSE "4"

\* duration != "4" && duration != "8" && duration != "12", negated
validDuration(d) == d = "4" \/ d = "8" \/ d = "12"

InvalidDuration(d) == [kind |-> "invalidDuration", duration |-> d]

OptSizes == {"", "640x480"}
CfgSizes == {"", "720x1280"}

\* size: the option, else the configured value, else "1280x720"
resolveSize(opt, saved) ==
    IF opt # "" THEN opt ELSE IF saved # "" THEN saved ELSE "1280x720"

\* the reference image paths an option or the wizard's text input carries
ReferenceImages == {"", "ref.png"}

\* The options and the configuration a run starts from: the duration settings
\* vary with the other settings empty, and so do the size settings and the
\* reference image.
Settings ==
    { s \in [optDuration : OptDurations, cfgDuration : CfgDurations,
             optSize : OptSizes, cfgSize : CfgSizes,
             optReferenceImage : ReferenceImages] :
        \/ s.optSize = "" /\ s.cfgSize = "" /\ s.optReferenceImage = ""
        \/ s.optDuration = "" /\ s.cfgDuration = "" /\ s.optReferenceImage = ""
        \/ s.optDuration = "" /\ s.cfgDuration = "" /\ s.optSize = "" /\ s.cfgSize = "" }

\* The CreateVideo frame is dropped when its caller has taken the result.
CreateReturned ==
    /\ attempt' = 0
    /\ lastErr' = NoErr
    /\ createRet' = Pending
    /\ createSleeps' = <<>>
    /\ UNCHANGED <<createCalls, createLog>>

(***************************************************************************)
(* cli.RunNonInteractive                                                   *)
(***************************************************************************)
Fail(e) ==
    /\ outcome' = "failure"
    /\ err' = e
    /\ pc' = "done"

\* From the entry of RunNonInteractive to the call of CreateVideo.
BatchStart ==
    /\ mode = "batch"
    /\ pc = "start"
    /\ \E loaded \in BOOLEAN, key \in {"", "sk"}, s \in Settings :
         IF ~loaded
         THEN /\ Fail(WrapError("failed to load config", PlainError("config")))
              /\ UNCHANGED <<duration, req>>
         ELSE IF key = ""
         THEN /\ Fail(PlainError("OpenAI API key not found"))
              /\ UNCHANGED <<duration, req>>
         ELSE /\ duration' = resolveDuration(s.optDuration, s.cfgDuration)
              /\ IF ~validDuration(duration')
                 THEN /\ Fail(InvalidDuration(duration'))
                      /\ UNCHANGED req
                 ELSE /\ req' = [Seconds |-> duration',
                                 Size |-> resolveSize(s.optSize, s.cfgSize),
                                 InputReference |-> s.optReferenceImage]
                      /\ pc' = "create"
                      /\ UNCHANGED <<outcome, err>>
    /\ UNCHANGED <<mode, createVars, pollVars, downloadVars, tuiVars>>

\* CreateVideo has returned: the job is created or the run fails.
BatchCreated ==
    /\ mode = "batch"
    /\ pc = "create"
    /\ createRet # Pending
    /\ IF createRet.kind = "err"
       THEN /\ Fail(WrapError("failed to create video", createRet.err))
            /\ UNCHANGED videoID
       ELSE /\ videoID' = createRet.id
            /\ pc' = "poll"
            /\ UNCHANGED <<outcome, err>>
    /\ CreateReturned
    /\ UNCHANGED <<mode, duration, req, pollAttempts, elapsed, progress, statusCalls,
                   lastStatus, lastMessage, lastProgress, lastWait, seen, downloadVars,
                   tuiVars>>

\* The time a status request takes, in seconds.
CallSeconds == {0, 5}

\* pollInterval of the poll loop, in seconds
batchPollInterval(n, el) ==
    IF n = 1 THEN 0
    ELSE IF el < fastPollWindow THEN fastPollSeconds
    ELSE slowPollSeconds

\* One iteration of the poll loop.
BatchPoll ==
    /\ mode = "batch"
    /\ pc = "poll"
    /\ pollAttempts < maxAttempts
    /\ \E resp \in StatusResponses(statusCalls + 1), took \in CallSeconds :
         LET n == pollAttempts + 1
             wait == batchPollInterval(n, elapsed)
             r == GetVideo(resp)
         IN  /\ pollAttempts' = n
             /\ lastWait' = wait
             /\ elapsed' = Min(MaxElapsed, elapsed + wait + took)
             /\ statusCalls' = statusCalls + 1
             /\ lastStatus' = Reported(r)
             /\ lastMessage' = r.Message
             /\ lastProgress' = r.Progress
             /\ seen' = SeenAfter(seen, Reported(r))
             /\ IF statusQueryFailed(r)
                THEN /\ Fail(WrapError("failed to get video status", r.err))
                     /\ UNCHANGED progress
                ELSE /\ progress' = r.Progress
                     /\ IF isCompleted(r.Status)
                        THEN /\ pc' = "download"
                             /\ UNCHANGED <<outcome, err>>
                        ELSE IF isFailed(r.Status)
                        THEN Fail(GenerationFailed(r.Message))
                        ELSE UNCHANGED <<pc, outcome, err>>
    /\ UNCHANGED <<mode, duration, req, createVars, videoID, downloadVars, tuiVars>>

\* The poll loop ends without a terminal status.
BatchTimeout ==
    /\ mode = "batch"
    /\ pc = "poll"
    /\ ~(pollAttempts < maxAttempts)
    /\ Fail(TimeoutError)
    /\ UNCHANGED <<mode, duration, req, createVars, pollVars, downloadVars, tuiVars>>

\* One iteration of the download loop, with what follows the loop when the
\* iteration is the last one.
BatchDownload ==
    /\ mode = "batch"
    /\ pc = "download"
    /\ downloadAttempt < maxDownloadRetries
    /\ \E resp \in DownloadResponses :
         LET e == DownloadVideoContent(resp)
         IN  /\ downloadSleeps' = IF downloadAttempt > 0
                                  THEN downloadSleeps + downloadRetrySeconds
                                  ELSE downloadSleeps
             /\ downloadCalls' = downloadCalls + 1
             /\ downloadTarget' = videoID
             /\ downloadErr' = e
             /\ disk' = DiskAfter(resp, disk)
             /\ IF downloaded(e)
                THEN /\ pc' = "delete"
                     /\ UNCHANGED <<outcome, err, downloadAttempt>>
                ELSE IF ~isNotReady(e)
                THEN /\ Fail(WrapError("failed to download video", e))
                     /\ UNCHANGED downloadAttempt
                ELSE /\ downloadAttempt' = downloadAttempt + 1
                     /\ IF downloadAttempt' < maxDownloadRetries
                        THEN UNCHANGED <<pc, outcome, err>>
                        ELSE Fail(NotAvailableAfter(maxDownloadRetries, e))
    /\ UNCHANGED <<mode, duration, req, createVars, pollVars, deleteCalls, deleteErr, warned,
                   tuiVars>>

\* DeleteVideo after the download; its failure is a warning only.
BatchDelete ==
    /\ mode = "batch"
    /\ pc = "delete"
    /\ \E resp \in DeleteResponses :
         /\ deleteCalls' = deleteCalls + 1
         /\ deleteErr' = DeleteVideo(resp)
         /\ warned' = deleteFailed(deleteErr')
    /\ outcome' = "success"
    /\ pc' = "done"
    /\ UNCHANGED <<mode, err, duration, req, createVars, pollVars, downloadAttempt,
                   downloadErr, downloadCalls, downloadSleeps, downloadTarget, disk, tuiVars>>

(***************************************************************************)
(* tui.Model: NewModel, Init, Update and the commands Update starts.       *)
(* A command and the delivery of the message it returns are one action:    *)
(* the command reads the copy of the model it was created with, and        *)
(* Update handles its message when the action is taken.  pc names the      *)
(* command that is outstanding, "idle" when there is none.                 *)
(* The listing of recent videos has returned before the first key is       *)
(* pressed, and no key is pressed once a job has been started.            *)
(* Timers and sleeps run on one clock: while pollVideo sleeps its interval *)
(* every armed tick timer delivers one tickMsg per second of it, and none  *)
(* is delivered while a status query without a wait is outstanding.        *)
(***************************************************************************)
\* getDurationSelection
getDurationSelection(d) ==
    IF d = "4" THEN 0 ELSE IF d = "8" THEN 1 ELSE IF d = "12" THEN 2 ELSE 0

\* durations of the duration menu
durations == <<"4", "8", "12">>

\* getSizeSelection
getSizeSelection(size) ==
    IF size = "1280x720" THEN 0
    ELSE IF size = "720x1280" THEN 1
    ELSE IF size = "1792x1024" THEN 2
    ELSE IF size = "1024x1792" THEN 3
    ELSE 0

\* sizes of the size menu
sizes == <<"1280x720", "720x1280", "1792x1024", "1024x1792">>

\* saveConfigError with m.err left nil
saveConfigError_Nil(e) == NoErr

\* handleEnter in stateOutputDir: fmt.Errorf("failed to save config: %w", err)
saveConfigError(e) == WrapError("failed to save config", e)

\* the values of the prompt option and of the text input in statePrompt
Prompts == {"", "a prompt"}

\* wizardNext with the size step left out
wizardNext_SkipsSize(st) ==
    IF st = "statePrompt" THEN "stateModel"
    ELSE IF st = "stateModel" THEN "stateReferenceImage"
    ELSE IF st = "stateReferenceImage" THEN "stateDuration"
    ELSE IF st = "stateDuration" THEN "stateOutputDir"
    ELSE IF st = "stateSize" THEN "stateOutputDir"
    ELSE IF st = "stateOutputDir" THEN "stateGenerating"
    ELSE st

\* the state Enter moves a step of the wizard to
wizardNext(st) ==
    IF st = "statePrompt" THEN "stateModel"
    ELSE IF st = "stateModel" THEN "stateReferenceImage"
    ELSE IF st = "stateReferenceImage" THEN "stateDuration"
    ELSE IF st = "stateDuration" THEN "stateSize"
    ELSE IF st = "stateSize" THEN "stateOutputDir"
    ELSE IF st = "stateOutputDir" THEN "stateGenerating"
    ELSE st

\* handleEnter in stateReferenceImage: m.referenceImg and m.skipReference
\* after the text input's value is submitted; exists is what os.Stat finds
referenceImgAfter(value, ref) == IF value # "" THEN value ELSE ref
skipReferenceAfter(value, skip) == IF value # "" THEN skip ELSE TRUE

\* NewModel followed by Init.
TuiStart ==
    /\ mode = "tui"
    /\ pc = "start"
    /\ \E loaded \in BOOLEAN, key \in {"", "sk"}, optPrompt \in Prompts, s \in Settings :
         IF ~loaded
         THEN /\ Fail(WrapError("failed to load config", PlainError("config")))
              /\ UNCHANGED <<duration, req, state, ticksPending, prompt, referenceImg>>
         ELSE /\ duration' = resolveDuration(s.optDuration, s.cfgDuration)
              /\ UNCHANGED <<outcome, err>>
              /\ IF key = ""
                 THEN /\ state' = "stateAPIKey"
                      /\ pc' = "idle"
                      /\ UNCHANGED <<req, ticksPending, prompt, referenceImg>>
                 ELSE /\ prompt' = optPrompt
                      /\ referenceImg' = s.optReferenceImage
                      /\ req' = [Seconds |-> duration',
                                 Size |-> resolveSize(s.optSize, s.cfgSize),
                                 InputReference |-> referenceImg']
                      /\ IF optPrompt # ""
                         THEN /\ state' = "stateGenerating"
                              /\ pc' = "create"
                              /\ ticksPending' = ticksPending + 1
                         ELSE /\ state' = "stateListVideos"
                              /\ pc' = "list"
                              /\ UNCHANGED ticksPending
    /\ UNCHANGED <<mode, createVars, pollVars, downloadVars, elapsedSeconds, videoStatus,
                   pollInterval, tickDebt, outputPath, cmds, logVars, skipReference,
                   settingsVars>>

\* Update(errorMsg)
OnErrorMsg(e) ==
    /\ err' = e
    /\ state' = "stateError"
    /\ outcome' = "failure"
    /\ pc' = "idle"

\* listVideos returns: videosListedMsg or errorMsg.
TuiListed ==
    /\ mode = "tui"
    /\ pc = "list"
    /\ \E listed \in BOOLEAN :
         IF listed
         THEN /\ pc' = "idle"
              /\ UNCHANGED <<outcome, err, state>>
         ELSE OnErrorMsg(PlainError("failed to list videos"))
    /\ UNCHANGED <<mode, duration, req, createVars, pollVars, downloadVars, elapsedSeconds,
                   videoStatus, pollInterval, ticksPending, tickDebt, outputPath, cmds,
                   logVars, refVars, settingsVars>>

\* Update(KeyEnter) in the states of the wizard.
TuiEnter ==
    /\ mode = "tui"
    /\ pc = "idle"
    /\ outcome = "running"
    /\ \/ /\ state = "stateAPIKey"
          /\ \E saved \in BOOLEAN :
               IF saved
               THEN /\ state' = "statePrompt"
                    /\ UNCHANGED <<pc, outcome, err>>
               ELSE OnErrorMsg(PlainError("failed to save config"))
          /\ UNCHANGED <<req, refVars>>
       \/ /\ state = "stateListVideos"
          /\ \E deleting \in BOOLEAN :
               IF deleting
               THEN /\ state' = "stateDeletingVideos"
                    /\ pc' = "deleteAll"
               ELSE /\ state' = "statePrompt"
                    /\ UNCHANGED pc
          /\ UNCHANGED <<outcome, err, req, refVars>>
       \/ /\ state = "statePrompt"
          /\ \E value \in Prompts :
               IF value = ""
               THEN /\ outcome' = "aborted"
                    /\ pc' = "done"
                    /\ UNCHANGED <<state, prompt>>
               ELSE /\ prompt' = value
                    /\ state' = wizardNext(state)
                    /\ UNCHANGED <<pc, outcome>>
          /\ UNCHANGED <<err, req, referenceImg, skipReference>>
       \/ /\ state = "stateModel"
          /\ state' = wizardNext(state)
          /\ UNCHANGED <<pc, outcome, err, req, refVars>>
       \/ /\ state = "stateReferenceImage"
          /\ \E value \in ReferenceImages, exists \in BOOLEAN :
               IF value # "" /\ ~exists
               THEN UNCHANGED <<state, refVars>>
               ELSE /\ referenceImg' = referenceImgAfter(value, referenceImg)
                    /\ skipReference' = skipReferenceAfter(value, skipReference)
                    /\ state' = wizardNext(state)
          /\ UNCHANGED <<pc, outcome, err, req, prompt>>
       \/ /\ state = "stateDuration"
          /\ req' = [req EXCEPT !.Seconds = durations[getDurationSelection(req.Seconds) + 1]]
          /\ state' = wizardNext(state)
          /\ UNCHANGED <<pc, outcome, err, refVars>>
       \/ /\ state = "stateSize"
          /\ req' = [req EXCEPT !.Size = sizes[getSizeSelection(req.Size) + 1]]
          /\ state' = wizardNext(state)
          /\ UNCHANGED <<pc, outcome, err, refVars>>
       \/ /\ state = "stateOutputDir"
          /\ \E saved \in BOOLEAN :
               IF saved
               THEN /\ state' = wizardNext(state)
                    /\ pc' = "create"
                    /\ req' = [req EXCEPT !.InputReference = referenceImg]
                    /\ UNCHANGED <<outcome, err>>
               ELSE /\ OnErrorMsg(saveConfigError(PlainError("config")))
                    /\ UNCHANGED req
          /\ UNCHANGED refVars
    /\ UNCHANGED <<mode, duration, createVars, pollVars, downloadVars, elapsedSeconds,
                   videoStatus, pollInterval, ticksPending, tickDebt, outputPath, cmds,
                   logVars, settingsVars>>

\* deleteAllVideos returns: videosDeletedMsg.
TuiVideosDeleted ==
    /\ mode = "tui"
    /\ pc = "deleteAll"
    /\ state' = "statePrompt"
    /\ pc' = "idle"
    /\ UNCHANGED <<mode, outcome, err, duration, req, createVars, pollVars, downloadVars,
                   elapsedSeconds, videoStatus, pollInterval, ticksPending, tickDebt,
                   outputPath, cmds, logVars, refVars, settingsVars>>

\* Update(tickMsg)
TuiTick ==
    /\ mode = "tui"
    /\ ticksPending > 0
    /\ IF state = "statePolling" \/ state = "stateGenerating"
       THEN /\ elapsedSeconds < MaxElapsed
            /\ state = "statePolling" => tickDebt > 0
            /\ elapsedSeconds' = elapsedSeconds + 1
            /\ tickDebt' = IF state = "stateGenerating" THEN tickDebt
                           ELSE IF elapsedSeconds' = MaxElapsed THEN 0
                           ELSE tickDebt - 1
            /\ UNCHANGED ticksPending
       ELSE /\ ticksPending' = ticksPending - 1
            /\ UNCHANGED <<elapsedSeconds, tickDebt>>
    /\ UNCHANGED <<mode, pc, outcome, err, duration, req, createVars, pollVars, downloadVars,
                   state, videoStatus, pollInterval, outputPath, cmds, logVars, refVars,
                   settingsVars>>

\* The createVideo command returns: Update(videoCreatedMsg) or Update(errorMsg).
TuiCreated ==
    /\ mode = "tui"
    /\ pc = "create"
    /\ createRet # Pending
    /\ IF createRet.kind = "err"
       THEN /\ OnErrorMsg(createRet.err)
            /\ UNCHANGED <<videoID, pollAttempts, elapsedSeconds, progress, ticksPending>>
       ELSE /\ videoID' = createRet.id
            /\ state' = "statePolling"
            /\ pollAttempts' = 0
            /\ elapsedSeconds' = 0
            /\ progress' = 0
            /\ pc' = "check"
            /\ ticksPending' = ticksPending + 1
            /\ UNCHANGED <<outcome, err>>
    /\ CreateReturned
    /\ UNCHANGED <<mode, duration, req, elapsed, statusCalls, lastStatus, lastMessage,
                   lastProgress, lastWait, seen, downloadVars, videoStatus, pollInterval, tickDebt,
                   outputPath, cmds, logVars, refVars, settingsVars>>

\* pollInterval of pollVideo, in seconds
pollVideoInterval(prog, secs) ==
    IF prog >= fullProgress THEN fastPollSeconds
    ELSE IF secs < fastPollWindow THEN fastPollSeconds
    ELSE slowPollSeconds

\* View in statePolling: the interval of "Polling API every ...", in seconds
viewPollInterval(secs) == IF secs >= fastPollWindow THEN slowPollSeconds ELSE fastPollSeconds

\* pollCeilingReached with the ceiling five attempts later
pollCeilingReached_Late(n) == n > tuiPollCeiling + 5

\* m.pollAttempts > 200
pollCeilingReached(n) == n > tuiPollCeiling

\* Update(pollMsg)
OnPollMsg(r) ==
    IF state # "statePolling"
    THEN /\ pc' = "idle"
         /\ UNCHANGED <<outcome, err, state, pollAttempts, progress, videoStatus, pollInterval,
                        tickDebt>>
    ELSE /\ pollAttempts' = pollAttempts + 1
         /\ progress' = r.Progress
         /\ videoStatus' = r.Status
         /\ IF pollCeilingReached(pollAttempts')
            THEN /\ pc' = "timeout"
                 /\ pollInterval' = 0
                 /\ tickDebt' = 0
            ELSE /\ pc' = "poll"
                 /\ pollInterval' = pollVideoInterval(progress', elapsedSeconds)
                 /\ tickDebt' = IF elapsedSeconds < MaxElapsed
                                THEN pollInterval' * ticksPending
                                ELSE 0
         /\ UNCHANGED <<outcome, err, state>>

\* What checkVideoStatus and pollVideo return for a GetVideo result, and
\* Update's handling of it.
OnStatus(r) ==
    IF statusQueryFailed(r)
    THEN /\ OnErrorMsg(r.err)
         /\ UNCHANGED <<pollAttempts, progress, videoStatus, pollInterval, tickDebt>>
    ELSE IF isCompleted(r.Status)
    THEN /\ state' = "stateDownloading"
         /\ pc' = "download"
         /\ UNCHANGED <<outcome, err, pollAttempts, progress, videoStatus, pollInterval,
                        tickDebt>>
    ELSE IF isFailed(r.Status)
    THEN /\ OnErrorMsg(GenerationFailed(r.Message))
         /\ UNCHANGED <<pollAttempts, progress, videoStatus, pollInterval, tickDebt>>
    ELSE OnPollMsg(r)

\* The checkVideoStatus command: a status query without a wait.
TuiCheckVideoStatus ==
    /\ mode = "tui"
    /\ pc = "check"
    /\ \E resp \in StatusResponses(statusCalls + 1) :
         LET r == GetVideo(resp)
         IN  /\ statusCalls' = statusCalls + 1
             /\ lastWait' = 0
             /\ lastStatus' = Reported(r)
             /\ lastMessage' = r.Message
             /\ lastProgress' = r.Progress
             /\ seen' = SeenAfter(seen, Reported(r))
             /\ OnStatus(r)
    /\ UNCHANGED <<mode, duration, req, createVars, videoID, elapsed, downloadVars,
                   elapsedSeconds, ticksPending, outputPath, cmds, logVars, refVars, settingsVars>>

\* The pollVideo command: it sleeps the interval computed from the model it
\* was created with, then queries the status.
TuiPollVideo ==
    /\ mode = "tui"
    /\ pc = "poll"
    /\ tickDebt = 0
    /\ \E resp \in StatusResponses(statusCalls + 1) :
         LET r == GetVideo(resp)
         IN  /\ statusCalls' = statusCalls + 1
             /\ lastWait' = pollInterval
             /\ lastStatus' = Reported(r)
             /\ lastMessage' = r.Message
             /\ lastProgress' = r.Progress
             /\ seen' = SeenAfter(seen, Reported(r))
             /\ OnStatus(r)
    /\ UNCHANGED <<mode, duration, req, createVars, videoID, elapsed, downloadVars,
                   elapsedSeconds, ticksPending, outputPath, cmds, logVars, refVars, settingsVars>>

\* The command Update(pollMsg) returns beyond the ceiling: errorMsg.
TuiTimeout ==
    /\ mode = "tui"
    /\ pc = "timeout"
    /\ OnErrorMsg(TimeoutError)
    /\ UNCHANGED <<mode, duration, req, createVars, pollVars, downloadVars, elapsedSeconds,
                   videoStatus, pollInterval, ticksPending, tickDebt, outputPath, cmds,
                   logVars, refVars, settingsVars>>

\* One iteration of downloadVideo's loop, with the return that follows the
\* loop when the iteration is the last one.
TuiDownload ==
    /\ mode = "tui"
    /\ pc = "download"
    /\ downloadAttempt < maxDownloadRetries
    /\ \E resp \in DownloadResponses :
         LET e == DownloadVideoContent(resp)
         IN  /\ downloadSleeps' = IF downloadAttempt > 0
                                  THEN downloadSleeps + downloadRetrySeconds
                                  ELSE downloadSleeps
             /\ downloadCalls' = downloadCalls + 1
             /\ downloadTarget' = videoID
             /\ downloadErr' = e
             /\ disk' = DiskAfter(resp, disk)
             /\ IF downloaded(e)
                THEN /\ pc' = "delete"
                     /\ UNCHANGED <<outcome, err, state, downloadAttempt>>
                ELSE IF ~isNotReady(e)
                THEN /\ OnErrorMsg(e)
                     /\ UNCHANGED downloadAttempt
                ELSE /\ downloadAttempt' = downloadAttempt + 1
                     /\ IF downloadAttempt' < maxDownloadRetries
                        THEN UNCHANGED <<pc, outcome, err, state>>
                        ELSE OnErrorMsg(NotAvailableAfter(maxDownloadRetries, NoErr))
    /\ UNCHANGED <<mode, duration, req, createVars, pollVars, deleteCalls, deleteErr, warned,
                   elapsedSeconds, videoStatus, pollInterval, ticksPending, tickDebt,
                   outputPath, cmds, logVars, refVars, settingsVars>>

\* quitEnds with the commands left running
quitEnds_Nothing(cs) == cs

\* tea.Quit: Run returns and main exits, which ends the goroutines of the
\* commands that have not returned; the exit is taken to come before any of
\* them makes its next call.
quitEnds(cs) == EmptyBag

\* filepath.Join(m.outputDir, "sora_video_<timestamp>.mp4")
OutputFile == "sora_video.mp4"

\* DeleteVideo inside downloadVideo, then Update(videoDownloadedMsg).
TuiDelete ==
    /\ mode = "tui"
    /\ pc = "delete"
    /\ \E resp \in DeleteResponses :
         /\ deleteCalls' = deleteCalls + 1
         /\ deleteErr' = DeleteVideo(resp)
         /\ warned' = deleteFailed(deleteErr')
    /\ state' = "stateComplete"
    /\ outputPath' = OutputFile
    /\ outcome' = "success"
    /\ pc' = "idle"
    /\ UNCHANGED <<mode, err, duration, req, createVars, pollVars, downloadAttempt,
                   downloadErr, downloadCalls, downloadSleeps, downloadTarget, disk,
                   elapsedSeconds, videoStatus, pollInterval, ticksPending, tickDebt, cmds,
                   logVars, refVars, settingsVars>>

(***************************************************************************)
(* The generation workflow under either front end.                         *)
(***************************************************************************)
Init ==
    /\ mode \in {"batch", "tui"}
    /\ pc = "start"
    /\ outcome = "running"
    /\ err = NoErr
    /\ duration = ""
    /\ req = [Seconds |-> "", Size |-> "", InputReference |-> ""]
    /\ createCalls = 0
    /\ CreateEntered
    /\ NoJobYet
    /\ NoTui

Next ==
    \/ CreateVideo
    \/ BatchStart
    \/ BatchCreated
    \/ BatchPoll
    \/ BatchTimeout
    \/ BatchDownload
    \/ BatchDelete
    \/ TuiStart
    \/ TuiListed
    \/ TuiEnter
    \/ TuiVideosDeleted
    \/ TuiTick
    \/ TuiCreated
    \/ TuiCheckVideoStatus
    \/ TuiPollVideo
    \/ TuiTimeout
    \/ TuiDownload
    \/ TuiDelete

Spec == Init /\ [][Next]_vars

\* The steps of the poller.  The batch loop runs on by itself, and the Bubble
\* Tea runtime runs every command it is handed and delivers every message
\* and every armed timer.
PollerStep ==
    \/ BatchPoll
    \/ BatchTimeout
    \/ TuiCheckVideoStatus
    \/ TuiPollVideo
    \/ TuiTimeout
    \/ TuiTick

SpecLive == Spec /\ WF_vars(PollerStep)

(***************************************************************************)
(* A batch run on its own.  Every remote call returns and every sleep      *)
(* ends, so RunNonInteractive takes its next step whenever it has one.     *)
(***************************************************************************)
InitBatch ==
    /\ Init
    /\ mode = "batch"

NextBatch ==
    \/ CreateVideo
    \/ BatchStart
    \/ BatchCreated
    \/ BatchPoll
    \/ BatchTimeout
    \/ BatchDownload
    \/ BatchDelete

SpecBatch == InitBatch /\ [][NextBatch]_vars /\ WF_vars(NextBatch)

(***************************************************************************)
(* An interactive session with keys pressed at any time.  Every command    *)
(* Update hands to the runtime runs on its own and returns its message     *)
(* when it is done; commands and keys interleave freely, and time is left  *)
(* out (no tickMsg, elapsedSeconds stays 0).  The environment of a session *)
(* is a small one: the configuration loads and holds an API key, the       *)
(* account lists no earlier videos, a creation request is answered at the  *)
(* first attempt with 201 or 400, and the content of a completed job is    *)
(* ready.  pc is "run" while the program runs.                             *)
(***************************************************************************)
Command(name, id) == [cmd |-> name, id |-> id]

\* tea.Batch(..., c): c is handed to the runtime, done has returned
Handed(done, started) == (cmds (-) SetToBag(done)) (+) SetToBag(started)

\* The number of outstanding commands of the given kinds.
Outstanding(kinds) ==
    LET of == {c \in BagToSet(cmds) : c.cmd \in kinds}
    IN  BagCardinality([c \in of |-> cmds[c]])

\* IDs the service gives to the jobs of a session
JobIDs == <<"video_1", "video_2", "video_3">>

SessionStatusResponses(n) ==
    LET short == {r \in PendingResponses \cup SettledResponses : r.message = <<>>}
    IN  IF n < MaxSessionQueries THEN short ELSE short \ PendingResponses

SessionDownloadResponses == {r \in DownloadResponses : ~isNotReady(DownloadVideoContent(r))}

\* The variables a session leaves alone.
sessionFrozen ==
    <<mode, duration, attempt, lastErr, createRet, createSleeps, createLog, elapsed,
      lastStatus, lastMessage, lastProgress, lastWait, seen, downloadAttempt, downloadSleeps,
      elapsedSeconds, pollInterval, ticksPending, tickDebt, logVars, settingsVars>>

remoteCalls ==
    <<createCalls, statusCalls, downloadCalls, downloadErr, downloadTarget, deleteCalls,
      deleteErr, warned, disk>>

\* The fields of the model after a handler; outcome is what the screen shows.
SessionModel(st, e, id, n, prog, vs, path) ==
    /\ state' = st
    /\ err' = e
    /\ videoID' = id
    /\ pollAttempts' = n
    /\ progress' = prog
    /\ videoStatus' = vs
    /\ outputPath' = path
    /\ outcome' = IF st = "stateError" THEN "failure"
                  ELSE IF st = "stateComplete" THEN "success"
                  ELSE "running"

SessionState(st) == SessionModel(st, err, videoID, pollAttempts, progress, videoStatus, outputPath)

\* Update(errorMsg) that enters stateError and leaves err as it was
SessionError_KeepsErr(e) ==
    SessionModel("stateError", err, videoID, pollAttempts, progress, videoStatus, outputPath)

\* Update(errorMsg)
SessionError(e) ==
    SessionModel("stateError", e, videoID, pollAttempts, progress, videoStatus, outputPath)

\* NewModel followed by Init.
SessionStart ==
    /\ mode = "session"
    /\ pc = "start"
    /\ pc' = "run"
    /\ \E optPrompt \in Prompts, optReferenceImage \in ReferenceImages :
         /\ prompt' = optPrompt
         /\ referenceImg' = optReferenceImage
         /\ IF optPrompt # ""
            THEN /\ SessionState("stateGenerating")
                 /\ req' = [req EXCEPT !.InputReference = referenceImg']
                 /\ cmds' = Handed({}, {Command("create", "")})
            ELSE /\ SessionState("stateListVideos")
                 /\ cmds' = Handed({}, {Command("list", "")})
                 /\ UNCHANGED req
    /\ UNCHANGED <<skipReference, sessionFrozen, remoteCalls>>

\* Update(KeyEnter): the list screen, the restart from stateComplete and
\* stateError, and the steps of the wizard.
SessionEnter ==
    /\ mode = "session"
    /\ pc = "run"
    /\ \/ /\ state = "stateListVideos"
          /\ SessionState("statePrompt")
          /\ UNCHANGED <<pc, cmds, req, refVars>>
       \/ /\ state \in {"stateComplete", "stateError"}
          /\ SessionModel("statePrompt", NoErr, "", 0, 0, videoStatus, "")
          /\ skipReference' = FALSE
          /\ UNCHANGED <<pc, cmds, req, prompt, referenceImg>>
       \/ /\ state = "statePrompt"
          /\ \E value \in Prompts :
               IF value = ""
               THEN /\ outcome' = "aborted"
                    /\ pc' = "done"
                    /\ cmds' = quitEnds(cmds)
                    /\ UNCHANGED <<state, err, videoID, pollAttempts, progress, videoStatus,
                                   outputPath, prompt>>
               ELSE /\ prompt' = value
                    /\ SessionState(wizardNext(state))
                    /\ UNCHANGED <<pc, cmds>>
          /\ UNCHANGED <<req, referenceImg, skipReference>>
       \/ /\ state = "stateModel"
          /\ SessionState(wizardNext(state))
          /\ UNCHANGED <<pc, cmds, req, refVars>>
       \/ /\ state = "stateReferenceImage"
          /\ \E value \in ReferenceImages, exists \in BOOLEAN :
               IF value # "" /\ ~exists
               THEN /\ SessionState(state)
                    /\ UNCHANGED refVars
               ELSE /\ referenceImg' = referenceImgAfter(value, referenceImg)
                    /\ skipReference' = skipReferenceAfter(value, skipReference)
                    /\ SessionState(wizardNext(state))
          /\ UNCHANGED <<pc, cmds, req, prompt>>
       \/ /\ state = "stateDuration"
          /\ SessionState(wizardNext(state))
          /\ UNCHANGED <<pc, cmds, req, refVars>>
       \/ /\ state = "stateSize"
          /\ SessionState(wizardNext(state))
          /\ UNCHANGED <<pc, cmds, req, refVars>>
       \/ /\ state = "stateOutputDir"
          /\ createCalls + Outstanding({"create"}) < MaxSessionJobs
          /\ \E saved \in BOOLEAN :
               IF saved
               THEN /\ SessionState(wizardNext(state))
                    /\ req' = [req EXCEPT !.InputReference = referenceImg]
                    /\ cmds' = Handed({}, {Command("create", "")})
               ELSE /\ SessionError(saveConfigError(PlainError("config")))
                    /\ UNCHANGED <<cmds, req>>
          /\ UNCHANGED <<pc, refVars>>
    /\ UNCHANGED <<sessionFrozen, remoteCalls>>

\* Update(KeyCtrlC) and Update(KeyEsc): tea.Quit.
SessionQuit ==
    /\ mode = "session"
    /\ pc = "run"
    /\ outcome' = "aborted"
    /\ pc' = "done"
    /\ cmds' = quitEnds(cmds)
    /\ UNCHANGED <<state, err, videoID, pollAttempts, progress, videoStatus, outputPath,
                   req, refVars, sessionFrozen, remoteCalls>>

\* listVideos returns: Update(videosListedMsg) or Update(errorMsg).
SessionListed(c) ==
    /\ c.cmd = "list"
    /\ cmds' = Handed({c}, {})
    /\ \E listed \in BOOLEAN :
         IF listed
         THEN UNCHANGED <<outcome, err, state, videoID, pollAttempts, progress, videoStatus,
                          outputPath>>
         ELSE SessionError(PlainError("failed to list videos"))
    /\ UNCHANGED remoteCalls

\* createVideo returns: Update(videoCreatedMsg) or Update(errorMsg).
SessionCreated(c) ==
    /\ c.cmd = "create"
    /\ createCalls' = createCalls + 1
    /\ \E created \in BOOLEAN :
         IF created
         THEN /\ SessionModel("statePolling", err, JobIDs[createCalls'], 0, 0, videoStatus,
                              outputPath)
              /\ cmds' = Handed({c}, {Command("check", videoID')})
         ELSE /\ SessionError(FailedAfter(maxRetries, HttpError(400)))
              /\ cmds' = Handed({c}, {})
    /\ UNCHANGED <<statusCalls, downloadCalls, downloadErr, downloadTarget, deleteCalls,
                   deleteErr, warned, disk>>

\* checkVideoStatus or pollVideo returns: Update(errorMsg),
\* Update(videoReadyMsg) or Update(pollMsg).
SessionPolled(c) ==
    /\ c.cmd \in {"check", "poll"}
    /\ statusCalls' = statusCalls + 1
    /\ \E resp \in SessionStatusResponses(statusCalls') :
         LET r == GetVideo(resp)
         IN  IF statusQueryFailed(r)
             THEN /\ SessionError(r.err)
                  /\ cmds' = Handed({c}, {})
             ELSE IF isCompleted(r.Status)
             THEN /\ SessionState("stateDownloading")
                  /\ cmds' = Handed({c}, {Command("download", videoID)})
             ELSE IF isFailed(r.Status)
             THEN /\ SessionError(GenerationFailed(r.Message))
                  /\ cmds' = Handed({c}, {})
             ELSE IF state # "statePolling"
             THEN /\ cmds' = Handed({c}, {})
                  /\ UNCHANGED <<outcome, err, state, videoID, pollAttempts, progress,
                                 videoStatus, outputPath>>
             ELSE /\ SessionModel("statePolling", err, videoID, pollAttempts + 1, r.Progress,
                                  r.Status, outputPath)
                  /\ cmds' = Handed({c}, {IF pollCeilingReached(pollAttempts')
                                          THEN Command("timeout", "")
                                          ELSE Command("poll", videoID)})
    /\ UNCHANGED <<createCalls, downloadCalls, downloadErr, downloadTarget, deleteCalls,
                   deleteErr, warned, disk>>

\* downloadVideo as far as its DownloadVideoContent call: Update(errorMsg)
\* when the call fails.
SessionDownloaded(c) ==
    /\ c.cmd = "download"
    /\ downloadCalls' = downloadCalls + 1
    /\ downloadTarget' = c.id
    /\ \E resp \in SessionDownloadResponses :
         /\ downloadErr' = DownloadVideoContent(resp)
         /\ disk' = DiskAfter(resp, disk)
         /\ IF downloaded(downloadErr')
            THEN /\ cmds' = Handed({c}, {Command("delete", c.id)})
                 /\ UNCHANGED <<outcome, err, state, videoID, pollAttempts, progress,
                                videoStatus, outputPath>>
            ELSE /\ SessionError(downloadErr')
                 /\ cmds' = Handed({c}, {})
    /\ UNCHANGED <<createCalls, statusCalls, deleteCalls, deleteErr, warned>>

\* downloadVideo from its DeleteVideo call on, then Update(videoDownloadedMsg).
SessionDeleted(c) ==
    /\ c.cmd = "delete"
    /\ \E resp \in DeleteResponses :
         /\ deleteCalls' = deleteCalls + 1
         /\ deleteErr' = DeleteVideo(resp)
         /\ warned' = deleteFailed(deleteErr')
    /\ SessionModel("stateComplete", err, videoID, pollAttempts, progress, videoStatus,
                    OutputFile)
    /\ cmds' = Handed({c}, {})
    /\ UNCHANGED <<createCalls, statusCalls, downloadCalls, downloadErr, downloadTarget,
                   disk>>

\* An outstanding command returns and Update handles its message.
SessionReturns ==
    /\ mode = "session"
    /\ \E c \in BagToSet(cmds) :
         \/ SessionListed(c)
         \/ SessionCreated(c)
         \/ SessionPolled(c)
         \/ SessionDownloaded(c)
         \/ SessionDeleted(c)
    /\ UNCHANGED <<pc, req, refVars, sessionFrozen>>

InitSession ==
    /\ mode = "session"
    /\ pc = "start"
    /\ outcome = "running"
    /\ err = NoErr
    /\ duration = ""
    /\ req = [Seconds |-> "", Size |-> "", InputReference |-> ""]
    /\ createCalls = 0
    /\ CreateEntered
    /\ NoJobYet
    /\ NoTui

NextSession ==
    \/ SessionStart
    \/ SessionEnter
    \/ SessionQuit
    \/ SessionReturns

SpecSession == InitSession /\ [][NextSession]_vars

(***************************************************************************)
(* The debug log.  The API client hands its request and response entries   *)
(* to the debug callback, which appends them to the debugLogs of the Model *)
(* it has captured: the *Model NewModel returns.  tea.NewProgram is given  *)
(* that pointer; Update has a value receiver and returns a Model value, so *)
(* from the first Update on the runtime holds a copy of the model, and     *)
(* every later Update copies that copy.  View renders the model the        *)
(* runtime holds.  Entries are numbered in the order they are logged.      *)
(***************************************************************************)
\* append(m.debugLogs, entry), cut to the last maxDebugLogs entries; nothing
\* when debug is off
addDebugLog(dbg, logs, entry) ==
    IF ~dbg THEN logs
    ELSE LET appended == Append(logs, entry)
         IN  IF Len(appended) > maxDebugLogs
             THEN SubSeq(appended, Len(appended) - maxDebugLogs + 1, Len(appended))
             ELSE appended

\* m.debugLogs as View reads it
ViewLogs == IF held = "pointer" THEN debugLogs ELSE shown

\* The variables the debug log leaves alone.
traceFrozen ==
    <<mode, pc, outcome, err, duration, req, createVars, pollVars, downloadVars, state,
      elapsedSeconds, videoStatus, pollInterval, ticksPending, tickDebt, outputPath, cmds,
      refVars, settingsVars>>

\* The API client logs an entry while a command runs.
TraceLog ==
    /\ mode = "trace"
    /\ logged < MaxLogged
    /\ logged' = logged + 1
    /\ debugLogs' = addDebugLog(debug, debugLogs, logged')
    /\ UNCHANGED <<debug, held, shown, traceFrozen>>

\* The first Update: the runtime's model becomes a copy of the *Model.
TraceUpdate ==
    /\ mode = "trace"
    /\ held = "pointer"
    /\ held' = "value"
    /\ shown' = debugLogs
    /\ UNCHANGED <<debug, debugLogs, logged, traceFrozen>>

InitTrace ==
    /\ mode = "trace"
    /\ pc = "run"
    /\ outcome = "running"
    /\ err = NoErr
    /\ duration = ""
    /\ req = [Seconds |-> "", Size |-> "", InputReference |-> ""]
    /\ createCalls = 0
    /\ CreateEntered
    /\ NoJobYet
    /\ state = "stateListVideos"
    /\ elapsedSeconds = 0
    /\ videoStatus = ""
    /\ pollInterval = 0
    /\ ticksPending = 0
    /\ tickDebt = 0
    /\ outputPath = ""
    /\ cmds = EmptyBag
    /\ debug \in BOOLEAN
    /\ debugLogs = <<>>
    /\ held = "pointer"
    /\ shown = <<>>
    /\ logged = 0
    /\ prompt = ""
    /\ referenceImg = ""
    /\ skipReference = FALSE
    /\ NoSettings

NextTrace ==
    \/ TraceLog
    \/ TraceUpdate

SpecTrace == InitTrace /\ [][NextTrace]_vars

(***************************************************************************)
(* The settings of a run.  Both front ends load the configuration, check   *)
(* the API key and then settle model, duration, size and output directory  *)
(* from the options and the configuration.                                 *)
(***************************************************************************)
OptModels == {"", "sora", "sora-pro", "sora-2-pro"}
CfgModels == {"", "sora-2-pro"}
OptOutputDirs == {"", "/tmp/out"}
CfgOutputDirs == {"", "/videos"}
Keys == {"", "sk"}

\* filepath.Join(homeDir, "Desktop")
Desktop == "~/Desktop"

Options == [Model : OptModels, Duration : {"", "8"}, Size : OptSizes, OutputDir : OptOutputDirs]
Configs ==
    [OpenAIAPIKey : Keys, Model : CfgModels, Duration : {"", "12"}, Size : CfgSizes,
     OutputDir : CfgOutputDirs]

\* RunNonInteractive: model
cliModel(o, c) ==
    IF o.Model = ""
    THEN IF c.Model # "" THEN c.Model ELSE "sora-2"
    ELSE IF o.Model = "sora" THEN "sora-2"
    ELSE IF o.Model = "sora-pro" THEN "sora-2-pro"
    ELSE o.Model

\* RunNonInteractive: outputDir
cliOutputDir(o, c) ==
    IF o.OutputDir = ""
    THEN IF c.OutputDir # "" THEN c.OutputDir ELSE Desktop
    ELSE o.OutputDir

\* RunNonInteractive up to the output directory
RunNonInteractiveSettings(o, c) ==
    IF c.OpenAIAPIKey = ""
    THEN [kind |-> "err", err |-> PlainError("OpenAI API key not found")]
    ELSE IF ~validDuration(resolveDuration(o.Duration, c.Duration))
    THEN [kind |-> "err", err |-> InvalidDuration(resolveDuration(o.Duration, c.Duration))]
    ELSE [kind |-> "ok",
          model |-> cliModel(o, c),
          duration |-> resolveDuration(o.Duration, c.Duration),
          size |-> resolveSize(o.Size, c.Size),
          outputDir |-> cliOutputDir(o, c)]

\* NewModel: m.model
tuiModel(o, c) ==
    IF o.Model # ""
    THEN IF o.Model = "sora" THEN "sora-2"
         ELSE IF o.Model = "sora-pro" THEN "sora-2-pro"
         ELSE o.Model
    ELSE IF c.Model # "" THEN c.Model
    ELSE "sora-2"

\* NewModel: m.outputDir
tuiOutputDir(o, c) ==
    IF o.OutputDir # "" THEN o.OutputDir
    ELSE IF c.OutputDir # "" THEN c.OutputDir
    ELSE Desktop

\* NewModel: m.duration
tuiDuration(o, c) ==
    IF o.Duration # "" THEN o.Duration
    ELSE IF c.Duration # "" THEN c.Duration
    ELSE "4"

\* NewModel: m.size
tuiSize(o, c) ==
    IF o.Size # "" THEN o.Size
    ELSE IF c.Size # "" THEN c.Size
    ELSE "1280x720"

\* NewModel: the fields of the model it returns; without an API key it
\* returns before the options are read and the fields keep their zero values
NewModelSettings(o, c) ==
    IF c.OpenAIAPIKey = ""
    THEN [kind |-> "ok", model |-> "", duration |-> "", size |-> "", outputDir |-> ""]
    ELSE [kind |-> "ok",
          model |-> tuiModel(o, c),
          duration |-> tuiDuration(o, c),
          size |-> tuiSize(o, c),
          outputDir |-> tuiOutputDir(o, c)]

settingsFrozen ==
    <<mode, pc, outcome, err, duration, req, createVars, pollVars, downloadVars, state,
      elapsedSeconds, videoStatus, pollInterval, ticksPending, tickDebt, outputPath, cmds,
      logVars, refVars, opts, cfg, menuVars>>

\* The batch front end settles its settings.
CliResolves ==
    /\ mode = "settings"
    /\ cliSettings = Unset
    /\ cliSettings' = RunNonInteractiveSettings(opts, cfg)
    /\ UNCHANGED <<tuiSettings, settingsFrozen>>

\* The interactive front end builds its model.
TuiResolves ==
    /\ mode = "settings"
    /\ tuiSettings = Unset
    /\ tuiSettings' = NewModelSettings(opts, cfg)
    /\ UNCHANGED <<cliSettings, settingsFrozen>>

InitSettings ==
    /\ mode = "settings"
    /\ pc = "run"
    /\ outcome = "running"
    /\ err = NoErr
    /\ duration = ""
    /\ req = [Seconds |-> "", Size |-> "", InputReference |-> ""]
    /\ createCalls = 0
    /\ CreateEntered
    /\ NoJobYet
    /\ state = "none"
    /\ elapsedSeconds = 0
    /\ videoStatus = ""
    /\ pollInterval = 0
    /\ ticksPending = 0
    /\ tickDebt = 0
    /\ outputPath = ""
    /\ cmds = EmptyBag
    /\ NoLogs
    /\ prompt = ""
    /\ referenceImg = ""
    /\ skipReference = FALSE
    /\ opts \in Options
    /\ cfg \in Configs
    /\ cliSettings = Unset
    /\ tuiSettings = Unset
    /\ modelSelection = 0
    /\ durationSelection = 0
    /\ sizeSelection = 0

NextSettings ==
    \/ CliResolves
    \/ TuiResolves

SpecSettings == InitSettings /\ [][NextSettings]_vars

(***************************************************************************)
(* The menus of the wizard.  NewModel has set the selections from the      *)
(* options and the configuration; the arrow keys move them and Enter reads *)
(* them.  A job that was submitted ends and Enter starts the wizard again. *)
(***************************************************************************)
\* Go's a % n for n > 0: the remainder has the sign of a
GoRem(a, n) == IF a >= 0 THEN a % n ELSE 0 - ((0 - a) % n)

\* selectionUp without the menu's length added
selectionUp_NoWrap(sel, n) == GoRem(sel - 1, n)

\* KeyUp, KeyLeft: (selection - 1 + n) % n
selectionUp(sel, n) == GoRem(sel - 1 + n, n)

\* KeyDown, KeyRight: (selection + 1) % n
selectionDown(sel, n) == GoRem(sel + 1, n)

\* NewModel: m.modelSelection
newModelSelection(o, c) ==
    IF c.OpenAIAPIKey = "" THEN 0
    ELSE IF tuiModel(o, c) = "sora-2" THEN 0 ELSE 1

\* NewModel: m.durationSelection
newDurationSelection(o, c) ==
    IF c.OpenAIAPIKey = "" THEN 0 ELSE getDurationSelection(tuiDuration(o, c))

\* NewModel: m.sizeSelection
newSizeSelection(o, c) ==
    IF c.OpenAIAPIKey = "" THEN 0 ELSE getSizeSelection(tuiSize(o, c))

\* the states in which an arrow key moves a selection
MenuStates == {"stateModel", "stateDuration", "stateSize"}

\* the options the interactive front end is started with
MenuOptions ==
    [Model : OptModels, Duration : OptDurations \cup {"8"}, Size : OptSizes,
     OutputDir : {""}]

menuFrozen ==
    <<mode, pc, outcome, err, duration, req, createVars, pollVars, downloadVars,
      elapsedSeconds, videoStatus, pollInterval, ticksPending, tickDebt, outputPath, cmds,
      logVars, refVars, opts, cfg, cliSettings>>

\* Update(KeyUp), Update(KeyLeft)
MenuUp ==
    /\ mode = "menu"
    /\ state \in MenuStates
    /\ modelSelection' = IF state = "stateModel" THEN selectionUp(modelSelection, 2)
                         ELSE modelSelection
    /\ durationSelection' = IF state = "stateDuration" THEN selectionUp(durationSelection, 3)
                            ELSE durationSelection
    /\ sizeSelection' = IF state = "stateSize" THEN selectionUp(sizeSelection, 4)
                        ELSE sizeSelection
    /\ UNCHANGED <<state, tuiSettings, menuFrozen>>

\* Update(KeyDown), Update(KeyRight)
MenuDown ==
    /\ mode = "menu"
    /\ state \in MenuStates
    /\ modelSelection' = IF state = "stateModel" THEN selectionDown(modelSelection, 2)
                         ELSE modelSelection
    /\ durationSelection' = IF state = "stateDuration"
                            THEN selectionDown(durationSelection, 3)
                            ELSE durationSelection
    /\ sizeSelection' = IF state = "stateSize" THEN selectionDown(sizeSelection, 4)
                        ELSE sizeSelection
    /\ UNCHANGED <<state, tuiSettings, menuFrozen>>

\* Update(KeyEnter) in the steps of the wizard: the menus are read
MenuEnter ==
    /\ mode = "menu"
    /\ state \in {"statePrompt", "stateModel", "stateReferenceImage", "stateDuration",
                  "stateSize", "stateOutputDir"}
    /\ state' = wizardNext(state)
    /\ tuiSettings' =
         IF state = "stateModel"
         THEN [tuiSettings EXCEPT !.model = IF modelSelection = 0 THEN "sora-2"
                                            ELSE "sora-2-pro"]
         ELSE IF state = "stateDuration"
         THEN [tuiSettings EXCEPT !.duration = durations[durationSelection + 1]]
         ELSE IF state = "stateSize"
         THEN [tuiSettings EXCEPT !.size = sizes[sizeSelection + 1]]
         ELSE tuiSettings
    /\ UNCHANGED <<menuVars, menuFrozen>>

\* The job ends in stateComplete or stateError and Enter returns to the prompt.
MenuRestart ==
    /\ mode = "menu"
    /\ state = "stateGenerating"
    /\ state' = "statePrompt"
    /\ UNCHANGED <<tuiSettings, menuVars, menuFrozen>>

InitMenu ==
    /\ mode = "menu"
    /\ pc = "run"
    /\ outcome = "running"
    /\ err = NoErr
    /\ duration = ""
    /\ req = [Seconds |-> "", Size |-> "", InputReference |-> ""]
    /\ createCalls = 0
    /\ CreateEntered
    /\ NoJobYet
    /\ state = "statePrompt"
    /\ elapsedSeconds = 0
    /\ videoStatus = ""
    /\ pollInterval = 0
    /\ ticksPending = 0
    /\ tickDebt = 0
    /\ outputPath = ""
    /\ cmds = EmptyBag
    /\ NoLogs
    /\ prompt = ""
    /\ referenceImg = ""
    /\ skipReference = FALSE
    /\ opts \in MenuOptions
    /\ cfg \in {c \in Configs : c.OutputDir = ""}
    /\ cliSettings = Unset
    /\ tuiSettings = NewModelSettings(opts, cfg)
    /\ modelSelection = newModelSelection(opts, cfg)
    /\ durationSelection = newDurationSelection(opts, cfg)
    /\ sizeSelection = newSizeSelection(opts, cfg)

NextMenu ==
    \/ MenuUp
    \/ MenuDown
    \/ MenuEnter
    \/ MenuRestart

SpecMenu == InitMenu /\ [][NextMenu]_vars

(***************************************************************************)
(* Properties of CreateVideo, checked under SpecCreate.                    *)
(***************************************************************************)
\* The classes of a creation response, read off the response itself.
Is4xx(resp) ==
    resp.kind = "http" /\ resp.body # "unreadable" /\ resp.code >= 400 /\ resp.code <= 499
Is5xx(resp) ==
    resp.kind = "http" /\ resp.body # "unreadable" /\ resp.code >= 500 /\ resp.code <= 599
IsCreated(resp) ==
    resp.kind = "http" /\ resp.body = "ok" /\ resp.code \in {200, 201}

\* C1: when the first creation attempt meets a 4xx response, CreateVideo has
\* returned a failure after exactly one creation request and without sleeping.
C1_ClientErrorNotRetried ==
    (Len(createLog) >= 1 /\ Is4xx(createLog[1])) =>
        /\ Len(createLog) = 1
        /\ createRet.kind = "err"
        /\ createCalls = 1
        /\ createSleeps = <<>>

C1_Witness ==
    /\ Len(createLog) = 1
    /\ Is4xx(createLog[1])
    /\ createRet.kind = "err"

\* C2: no wait precedes the first attempt; when attempts 1 and 2 meet 5xx
\* responses the second attempt is preceded by a 2 s wait, and when attempt 3
\* then succeeds CreateVideo returns success after exactly 3 requests having
\* slept 2 s and then 4 s.
C2_BackoffTwoThenFour ==
    /\ (Len(createLog) = 1 => createSleeps = <<>>)
    /\ (Len(createLog) = 2 /\ Is5xx(createLog[1]) /\ Is5xx(createLog[2]))
            => createSleeps = <<2>>
    /\ (Len(createLog) = 3 /\ Is5xx(createLog[1]) /\ Is5xx(createLog[2])
            /\ IsCreated(createLog[3]))
            => /\ createRet = [kind |-> "ok", id |-> JobID]
               /\ createCalls = 3
               /\ createSleeps = <<2, 4>>

C2_Witness ==
    /\ Len(createLog) = 3
    /\ Is5xx(createLog[1]) /\ Is5xx(createLog[2]) /\ IsCreated(createLog[3])
    /\ createRet.kind = "ok"

\* C3: CreateVideo never issues more than 3 creation requests nor makes more
\* than 3 attempts; once a third attempt has failed it has returned a failure
\* whose cause is the error of that third attempt, and it never returns
\* success after a failed third attempt.
C3_AtMostThreeAttempts ==
    /\ createCalls <= 3
    /\ Len(createLog) <= 3
    /\ (Len(createLog) = 3 /\ ~IsCreated(createLog[3])) =>
            /\ createRet.kind = "err"
            /\ createRet.err.kind = "failedAfter"
            /\ createRet.err.cause = createVideoAttempt(req, createLog[3]).err
            /\ createRet.err.cause # NoErr

C3_Witness ==
    /\ Len(createLog) = 3
    /\ \A i \in 1..3 : ~IsCreated(createLog[i]) /\ ~Is4xx(createLog[i])
    /\ createCalls = 3
    /\ createRet.kind = "err"

(***************************************************************************)
(* Properties of the generation workflow, checked under Spec.              *)
(***************************************************************************)
PendingStatuses == {r.status : r \in PendingResponses}

\* C4: when the resolved duration setting is not one of "4", "8" and "12",
\* the workflow issues no creation, status, download or delete request.
C4_InvalidDurationRejected ==
    (pc # "start" /\ duration \notin {"4", "8", "12"}) =>
        /\ createCalls = 0
        /\ statusCalls = 0
        /\ downloadCalls = 0
        /\ deleteCalls = 0

\* The wait the poller is to observe before a status query.
ExpectedWait(first, prog, secs) ==
    IF first THEN 0
    ELSE IF prog >= 100 THEN 10
    ELSE IF secs < 120 THEN 10
    ELSE 30

\* C5: in both front ends the wait before a status query is 0 for the first
\* query of a job, else 10 s when the last known progress is at least 100,
\* else 10 s when less than 120 s have elapsed, else 30 s.  In the batch
\* front end the wait is decided where the loop iteration begins; in the
\* interactive one it is decided from the model the pollVideo command is
\* created with, and it is the wait slept before that command's query.
C5_WaitBeforeStatusQuery ==
    [][ /\ (mode = "batch" /\ statusCalls' # statusCalls) =>
               lastWait' = ExpectedWait(statusCalls = 0, progress, elapsed)
        /\ (mode = "tui" /\ statusCalls' # statusCalls) =>
               lastWait' = IF statusCalls = 0 THEN 0 ELSE pollInterval
        /\ (mode = "tui" /\ statusCalls' # statusCalls /\ pc' = "poll") =>
               pollInterval' = ExpectedWait(FALSE, progress', elapsedSeconds')
      ]_vars

\* C6: once the status responses have been queued, in_progress, completed,
\* no further status query is issued and the workflow is downloading, or has
\* gone on to download, the job those responses were about.
C6_CompletedProceedsToDownload ==
    seen = 3 =>
        /\ statusCalls = 3
        /\ videoID = JobID
        /\ pc \in {"download", "delete", "done", "idle"}
        /\ pc # "download" => downloadCalls >= 1
        /\ downloadCalls >= 1 => downloadTarget = videoID
        /\ mode = "tui" => state \in {"stateDownloading", "stateComplete", "stateError"}

C6_Witness ==
    /\ seen = 3
    /\ statusCalls = 3
    /\ outcome = "success"
    /\ downloadTarget = JobID

\* C7: at most 200 status queries are issued for one job, under either
\* front end.
C7_AtMost200StatusQueries == statusCalls <= 200

\* C8: the poller does not poll forever.  The number of status queries is
\* bounded, a workflow that is polling eventually is not, and a workflow that
\* has ended after a non-terminal status response has failed with the timeout
\* error without any download or delete request.
C8_NoTerminalStatusTimesOut ==
    /\ [](statusCalls <= maxAttempts + 1)
    /\ (pc \in {"check", "poll", "timeout"}) ~> (pc \notin {"check", "poll", "timeout"})
    /\ []((outcome # "running" /\ lastStatus \in PendingStatuses) =>
             /\ outcome = "failure"
             /\ err = TimeoutError
             /\ statusCalls >= maxAttempts
             /\ downloadCalls = 0
             /\ deleteCalls = 0)

C8_Witness ==
    /\ outcome = "failure"
    /\ err = TimeoutError
    /\ lastStatus \in PendingStatuses
    /\ mode = "tui"

\* C9: after a status response reporting failed the workflow has ended in
\* failure, no download or delete request has been issued, and the error is
\* "Video generation failed" followed by the response's error message when
\* it has one.
C9_FailedJobFailsWithMessage ==
    lastStatus = "failed" =>
        /\ outcome = "failure"
        /\ pc \in {"done", "idle"}
        /\ downloadCalls = 0
        /\ deleteCalls = 0
        /\ err = [kind |-> "text", text |-> FailedMessage(lastMessage)]

\* C10: after a status response that reports neither completed nor failed,
\* and with fewer than 200 status queries issued, the poller is still polling
\* and its next status query is scheduled.
C10_OtherStatusKeepsPolling ==
    (lastStatus \in PendingStatuses /\ statusCalls < maxAttempts) =>
        /\ outcome = "running"
        /\ pc = "poll"
        /\ mode = "batch" => pollAttempts < maxAttempts
        /\ mode = "tui" => /\ state = "statePolling"
                           /\ videoStatus = lastStatus
                           /\ ENABLED (TuiPollVideo \/ TuiTick)

C10_Witness ==
    /\ lastStatus = "processing"
    /\ statusCalls = 5
    /\ mode = "tui"
    /\ pc = "poll"

\* C11: a status query that fails (GetVideo returns an error) is not retried:
\* the workflow has failed with that error (wrapped by RunNonInteractive, as
\* it is in the model), no status query follows it, and no download or
\* delete is ever issued.
StatusQueryError == PlainError("failed to get video")

C11_StatusQueryFailureNotRetried ==
    lastStatus = "error" =>
        /\ outcome = "failure"
        /\ pc \in {"done", "idle"}
        /\ err = IF mode = "batch"
                 THEN WrapError("failed to get video status", StatusQueryError)
                 ELSE StatusQueryError
        /\ mode = "tui" => state = "stateError"
        /\ downloadCalls = 0
        /\ deleteCalls = 0

C11_Witness == lastStatus = "error" /\ statusCalls = 2 /\ outcome = "failure"

\* C12: the download loop waits 10 seconds before every attempt but the
\* first, so n download calls have slept 10 * (n - 1) seconds; a download
\* that is not ready on attempts 1 to 11 and succeeds on attempt 12 has made
\* exactly 12 calls and 11 waits of 10 seconds, and goes on to the delete.
C12_TwelfthAttemptSucceeds ==
    /\ downloadCalls >= 1 => downloadSleeps = 10 * (downloadCalls - 1)
    /\ (downloadAttempt = 11 /\ downloadErr = NoErr) =>
           /\ downloadCalls = 12
           /\ downloadSleeps = 110
           /\ outcome # "failure"
           /\ pc = "delete" \/ deleteCalls = 1

C12_Witness ==
    /\ mode = "tui"
    /\ downloadAttempt = 11
    /\ downloadErr = NoErr
    /\ downloadCalls = 12
    /\ outcome = "success"

\* C13: a job makes at most 12 download calls; when the content is still not
\* ready after all of them the workflow fails with the error "video content
\* not available after 12 attempts" (RunNonInteractive appends the last
\* download error) and no delete is issued.
C13_DownloadRetriesExhausted ==
    /\ downloadCalls <= 12
    /\ downloadAttempt <= 12
    /\ downloadAttempt = 12 =>
           /\ downloadCalls = 12
           /\ isNotReady(downloadErr)
           /\ outcome = "failure"
           /\ pc \in {"done", "idle"}
           /\ err = NotAvailableAfter(12, IF mode = "batch" THEN downloadErr ELSE NoErr)
           /\ mode = "tui" => state = "stateError"
           /\ deleteCalls = 0

C13_Witness == downloadAttempt = 12 /\ downloadCalls = 12 /\ err.kind = "notAvailableAfter"

\* C14: a download failure that is not the not-ready condition (a 404
\* response, or a response that says "not ready") is never retried: once it
\* has been returned the workflow has failed, whatever the response body says.
NotReadyCondition(e) ==
    e.kind = "download" /\ (e.statusCode = 404 \/ e.body = "not ready")

C14_OtherDownloadFailureNotRetried ==
    (downloadErr # NoErr /\ ~NotReadyCondition(downloadErr)) =>
        /\ outcome = "failure"
        /\ pc \in {"done", "idle"}

\* C15: the delete request is issued at most once, and only after a download
\* attempt for the same job has succeeded; a workflow that has succeeded has
\* issued it exactly once, directly after the download, and a workflow that
\* has failed (submission, status query, failed job, timeout, download
\* failure or exhaustion) has never issued it.
C15_DeleteOnceAfterDownload ==
    /\ deleteCalls <= 1
    /\ deleteCalls = 1 =>
           /\ downloadCalls >= 1
           /\ downloadErr = NoErr
           /\ downloadTarget = videoID
           /\ outcome = "success"
    /\ pc = "delete" => (downloadCalls >= 1 /\ downloadErr = NoErr /\ deleteCalls = 0)
    /\ outcome = "success" => deleteCalls = 1
    /\ outcome = "failure" => (deleteCalls = 0 /\ pc # "delete")
    /\ (downloadCalls >= 1 /\ downloadErr = NoErr /\ outcome = "running") => pc = "delete"

C15_Witness ==
    /\ deleteCalls = 1
    /\ downloadCalls = 3
    /\ downloadErr = NoErr
    /\ outcome = "success"

\* C16: when the delete request fails after a successful download the
\* workflow has still succeeded: RunNonInteractive returns no error, the
\* interactive model is in stateComplete with the output path, the warning
\* has been printed, and the delete was issued once only.
C16_DeleteFailureIsWarning ==
    /\ deleteErr # NoErr =>
           /\ warned
           /\ outcome = "success"
           /\ err = NoErr
           /\ downloadErr = NoErr
           /\ deleteCalls = 1
           /\ mode = "batch" => pc = "done"
           /\ mode = "tui" => (state = "stateComplete" /\ outputPath = OutputFile /\ pc = "idle")
    /\ warned => deleteErr # NoErr

C16_Witness ==
    /\ deleteErr = HttpError(500)
    /\ warned
    /\ mode = "tui"
    /\ state = "stateComplete"

\* C19: once the service has accepted a creation request (answered it with
\* 200 or 201), CreateVideo sends no further creation request, whatever
\* happens while the response is read and parsed: an accepted response is
\* the last entry of the log of one CreateVideo call.
Accepted(resp) == resp.kind = "http" /\ resp.code \in {200, 201}

C19_NoRequestAfterAcceptance ==
    \A i \in 1..Len(createLog) : Accepted(createLog[i]) => i = Len(createLog)

\* C20: a size setting that is not one of "1280x720", "720x1280",
\* "1792x1024" and "1024x1792" is rejected before any remote call, as an
\* invalid duration is: a creation request is never prepared or sent with
\* such a size.
SupportedSizes == {"1280x720", "720x1280", "1792x1024", "1024x1792"}

C20_InvalidSizeRejected ==
    (pc = "create" \/ createCalls > 0) => req.Size \in SupportedSizes

(***************************************************************************)
(* Properties of an interactive session, checked under SpecSession.        *)
(***************************************************************************)
\* C18: in one interactive session the stages run one after the other under
\* every interleaving of command completions and keys: at any time at most
\* one creation request, status query or download is outstanding, so there
\* is never a second submission or a second poll chain beside the first.
C18_OneStageAtATime ==
    Outstanding({"create", "check", "poll", "download", "delete"}) <= 1

\* C17: when the user aborts with Ctrl+C or Esc, at any point of a session,
\* the step that takes the abort and every step after it issues no status
\* query and no creation, download or delete request, and leaves no command
\* outstanding: the status query after the last one answered is never made
\* and no delete is made for the job.  At every point a delete is started
\* only by a download call that has just succeeded, for the same video ID.
AbortIssuesNothing ==
    pc' = "done" =>
        /\ statusCalls' = statusCalls
        /\ createCalls' = createCalls
        /\ downloadCalls' = downloadCalls
        /\ deleteCalls' = deleteCalls
        /\ cmds' = EmptyBag

DeleteOnlyAfterDownload ==
    /\ Outstanding({"delete"})' > Outstanding({"delete"}) =>
           /\ downloadCalls' = downloadCalls + 1
           /\ downloadErr' = NoErr
           /\ Command("delete", downloadTarget') \in BagToSet(cmds')
    /\ deleteCalls' # deleteCalls => Outstanding({"delete"}) > 0

C21_OnlyCompletedStartsDownload ==
    /\ (pc \in {"download", "delete"} \/ downloadCalls > 0) => lastStatus = "completed"
    /\ lastStatus # "completed" =>
           /\ downloadCalls = 0
           /\ deleteCalls = 0
           /\ mode = "tui" => state # "stateDownloading"
    /\ lastStatus = "completed" =>
           /\ pc \in {"download", "delete", "done", "idle"}
           /\ pc \in {"done", "idle"} => downloadCalls >= 1
           /\ mode = "tui" => state \in {"stateDownloading", "stateComplete", "stateError"}

C21_Witness ==
    /\ lastStatus = "completed"
    /\ lastProgress = 0
    /\ progress = 100
    /\ mode = "tui"
    /\ downloadCalls = 1

C21_WitnessFull ==
    /\ lastStatus = "in_progress"
    /\ lastProgress = 100
    /\ statusCalls = 3
    /\ pc = "poll"
    /\ downloadCalls = 0

\* C22: a download attempt that fails with the not-ready response leaves the
\* destination alone: while the attempts so far have all been answered that
\* way no directory and no file has been created.  The attempt that succeeds
\* creates the file once, after its parent directory, and leaves it fully
\* written; the file never exists without its parent directory.
NothingOnDisk == disk = [dir |-> FALSE, file |-> "absent", creates |-> 0]

C22_NotReadyLeavesNoFile ==
    /\ (downloadCalls > 0 /\ isNotReady(downloadErr)) => NothingOnDisk
    /\ downloadCalls = 0 => NothingOnDisk
    /\ disk.file # "absent" => disk.dir
    /\ (downloadCalls > 0 /\ downloadErr = NoErr) =>
           disk = [dir |-> TRUE, file |-> "written", creates |-> 1]
    /\ disk.creates <= 1

C22_Witness ==
    /\ downloadAttempt = 2
    /\ downloadCalls = 3
    /\ downloadErr = NoErr
    /\ disk.file = "written"
    /\ disk.creates = 1

(***************************************************************************)
(* Properties of the debug log, checked under SpecTrace.                   *)
(***************************************************************************)
\* C23: the debug log never holds more than 50 entries; with debug on it
\* holds the last 50 of the entries logged so far (all of them while there
\* are at most 50), in the order they were logged, so an append to a full
\* log drops the oldest entry; with debug off it stays empty.
LastLogged(n) == [i \in 1..n |-> logged - n + i]

C23_DebugLogCapped ==
    /\ Len(debugLogs) <= 50
    /\ debug => debugLogs = LastLogged(IF logged < 50 THEN logged ELSE 50)
    /\ ~debug => debugLogs = <<>>

C23_Witness ==
    /\ debug
    /\ logged = 52
    /\ Len(debugLogs) = 50
    /\ debugLogs[1] = 3
    /\ debugLogs[50] = 52

\* C27: with debug on, every entry the API client has logged (and the cap
\* has not dropped) is in the debug log of the model View renders.
C27_LoggedEntriesAreShown == debug => ViewLogs = debugLogs

(***************************************************************************)
(* Properties of the wizard, checked under SpecSession.                    *)
(***************************************************************************)
\* C24: when the reference image step of the wizard was submitted with an
\* empty path, the request of the job that run creates carries no reference
\* image, whatever an earlier run or the -r option had set.
C24_EmptyPathSendsNoReference ==
    (state = "stateGenerating" /\ skipReference) => req.InputReference = ""

(***************************************************************************)
(* Further properties of CreateVideo, checked under SpecCreate.            *)
(***************************************************************************)
\* C25: when every creation attempt met a server error and CreateVideo has
\* given up, it has retried three times, having slept 2 s, 4 s and 8 s.
C25_ThreeRetriesTwoFourEight ==
    (createRet.kind = "err" /\ \A i \in 1..Len(createLog) : Is5xx(createLog[i])) =>
        /\ Len(createLog) = 1 + 3
        /\ createSleeps = <<2, 4, 8>>

\* C28: every attempt that CreateVideo followed with another one had sent its
\* request and met a 5xx response or a transport failure; in particular an
\* attempt that failed before its request was sent is the only attempt, and
\* nothing is slept after it.
C28_RetryOnlyAfterServerOrTransportFailure ==
    /\ \A i \in 1..(Len(createLog) - 1) :
          /\ createVideoAttempt(req, createLog[i]).sent
          /\ \/ createLog[i].kind = "transport"
             \/ createLog[i].kind = "http" /\ createLog[i].code >= 500
    /\ (Len(createLog) >= 1 /\ createLog[1].kind = "local") => createSleeps = <<>>

\* C29: the number of attempts a CreateVideo failure names is the number of
\* attempts CreateVideo made: one when a 4xx response ended it, three when
\* the attempts were used up.
C29_FailureNamesAttemptsMade ==
    createRet.kind = "err" => createRet.err.attempts = Len(createLog)

(***************************************************************************)
(* Properties of the settings, checked under SpecSettings.                 *)
(***************************************************************************)
\* the option with sora mapped to sora-2 and sora-pro to sora-2-pro
MappedModel(m) == IF m = "sora" THEN "sora-2" ELSE IF m = "sora-pro" THEN "sora-2-pro" ELSE m

\* the option if given, else the configured value, else the default
Precedence(opt, conf, default) == IF opt # "" THEN opt ELSE IF conf # "" THEN conf ELSE default

\* the settings the options and the configuration call for
EffectiveSettings ==
    [kind |-> "ok",
     model |-> Precedence(MappedModel(opts.Model), cfg.Model, "sora-2"),
     duration |-> Precedence(opts.Duration, cfg.Duration, "4"),
     size |-> Precedence(opts.Size, cfg.Size, "1280x720"),
     outputDir |-> Precedence(opts.OutputDir, cfg.OutputDir, Desktop)]

\* C26: the settings a front end has settled are, for model, duration, size
\* and output directory, the option if given (sora read as sora-2, sora-pro
\* as sora-2-pro), else the configured value, else the default; this holds
\* of the batch front end whenever it gets to run and of the interactive one.
C26_SamePrecedenceInBothFrontEnds ==
    /\ (cliSettings # Unset /\ cliSettings.kind = "ok") => cliSettings = EffectiveSettings
    /\ tuiSettings # Unset => tuiSettings = EffectiveSettings

\* With an API key configured the two front ends settle the same settings.
SettingsAgreeWithKey ==
    (cfg.OpenAIAPIKey # "" /\ cliSettings # Unset /\ tuiSettings # Unset
        /\ cliSettings.kind = "ok") =>
        /\ cliSettings = EffectiveSettings
        /\ tuiSettings = EffectiveSettings

(***************************************************************************)
(* Termination of a batch run, checked under SpecBatch.                    *)
(***************************************************************************)
\* the requests a batch run may issue
WithinRequestBounds ==
    /\ createCalls <= 3
    /\ statusCalls <= 200
    /\ downloadCalls <= 12
    /\ deleteCalls <= 1

\* a run that has returned has succeeded or failed, and a run that has not
\* returned has done neither
OneOutcome == (pc = "done") <=> (outcome \in {"success", "failure"})

\* the outcome of a run, once set, stays
OutcomeStays == outcome # "running" => outcome' = outcome

\* C30: a batch run issues at most 3 creation requests, 200 status queries,
\* 12 download requests and 1 delete request, it returns with one outcome,
\* success or failure, that never changes afterwards, and, every remote call
\* returning, it always returns.
C30_BatchRunTerminates ==
    /\ [](WithinRequestBounds /\ OneOutcome)
    /\ [][OutcomeStays]_vars
    /\ <>(pc = "done")

C30_Witness ==
    /\ mode = "batch"
    /\ pc = "done"
    /\ outcome = "success"
    /\ createCalls = 3
    /\ statusCalls = 3
    /\ downloadCalls = 12
    /\ deleteCalls = 1

(***************************************************************************)
(* Properties of the interactive model, checked under Spec.                *)
(***************************************************************************)
\* C31: in the interactive front end at most one tick timer is armed at any
\* time, so that elapsedSeconds advances by one per second.
C31_OneTickTimer == mode = "tui" => ticksPending <= 1

(***************************************************************************)
(* Further properties of the wizard, checked under SpecSession.            *)
(***************************************************************************)
\* a step enters state to only from state from
EnteredOnlyFrom(to, from) == (state' = to /\ state # to) => state = from

\* a createVideo command is handed to the runtime in this step
Submits == CopiesIn(Command("create", ""), cmds') > CopiesIn(Command("create", ""), cmds)

\* C32: once the program runs, each step of the wizard is entered only from
\* the step before it, in the order prompt, model, reference image,
\* duration, size, output directory; the model step is entered only with a
\* prompt that is not empty; and a job is submitted only from the output
\* directory step, which is the only way into stateGenerating.
C32_WizardStepsInOrder ==
    [][pc = "run" =>
        /\ EnteredOnlyFrom("stateModel", "statePrompt")
        /\ (state' = "stateModel" /\ state # "stateModel") => prompt' # ""
        /\ EnteredOnlyFrom("stateReferenceImage", "stateModel")
        /\ EnteredOnlyFrom("stateDuration", "stateReferenceImage")
        /\ EnteredOnlyFrom("stateSize", "stateDuration")
        /\ EnteredOnlyFrom("stateOutputDir", "stateSize")
        /\ EnteredOnlyFrom("stateGenerating", "stateOutputDir")
        /\ Submits => (state = "stateOutputDir" /\ state' = "stateGenerating" /\ prompt # "")]_vars

C32_Witness ==
    /\ mode = "session"
    /\ state = "stateGenerating"
    /\ skipReference
    /\ prompt # ""
    /\ Outstanding({"create"}) = 1

(***************************************************************************)
(* Further properties of an interactive session, checked under SpecSession.*)
(***************************************************************************)
\* the listVideos command of the start returns in this step
ListReturns == CopiesIn(Command("list", ""), cmds') < CopiesIn(Command("list", ""), cmds)

\* C33: the result of the startup listing, arriving while a workflow is in
\* stateGenerating, statePolling or stateDownloading, leaves the state of
\* the model as it is.
C33_LateListErrorLeavesWorkflow ==
    [][(ListReturns /\ state \in {"stateGenerating", "statePolling", "stateDownloading"})
            => state' = state]_vars

\* C34: when a job enters statePolling, pollAttempts, elapsedSeconds and
\* progress are 0 and videoStatus is empty.
C34_PollingStartsClean ==
    [][(state' = "statePolling" /\ state # "statePolling") =>
            /\ pollAttempts' = 0
            /\ elapsedSeconds' = 0
            /\ progress' = 0
            /\ videoStatus' = ""]_vars

(***************************************************************************)
(* Further properties of the interactive model, checked under Spec.        *)
(***************************************************************************)
\* C35: while a pollVideo command waits in statePolling, the interval View
\* shows is the interval that command waits.
C35_ShownIntervalIsWaited ==
    (mode = "tui" /\ state = "statePolling" /\ pc = "poll") =>
        viewPollInterval(elapsedSeconds) = pollInterval

C37_SelectionsInRange ==
    /\ modelSelection \in 0..1
    /\ durationSelection \in 0..(Len(durations) - 1)
    /\ sizeSelection \in 0..(Len(sizes) - 1)
    /\ Len(durations) = 3
    /\ Len(sizes) = 4

C37_Witness ==
    /\ mode = "menu"
    /\ state = "stateOutputDir"
    /\ modelSelection = 1
    /\ durationSelection = 2
    /\ sizeSelection = 3
    /\ tuiSettings.duration = "12"
    /\ tuiSettings.size = "1024x1792"
    /\ opts.Duration = "5"

\* C38: whenever the model is in stateError its err is set, so that the
\* error screen has an error to render.
C38_ErrorStateHasError == state = "stateError" => err # NoErr

\* a second job has failed after Enter left the error screen of the first
C38_Witness ==
    /\ mode = "session"
    /\ state = "stateError"
    /\ err # NoErr
    /\ createCalls = 2

====
